---- MODULE Spec2Model ----
(***************************************************************************)
(* FileStoreManager (src/filestore_manager.py) as a state machine: one     *)
(* worker running manager operations (validate_api_key, create_store,      *)
(* list_stores, delete_store, query_store, upload_files) against a vendor  *)
(* whose calls may fail, take time and return objects of varying shape.    *)
(* GeminiFileStoreApp (src/app.py) as a second state machine: the GUI      *)
(* thread's handlers, the worker threads they start and the calls the      *)
(* workers defer to the GUI thread; there a manager operation is one step  *)
(* that returns or raises.                                                 *)
(***************************************************************************)
EXTENDS Integers, Sequences, FiniteSets, TLC

(***************************************************************************)
(* Program constants (src/config.py, src/filestore_manager.py)             *)
(***************************************************************************)
MAX_RETRIES == 3
RETRY_DELAY == 2
MAX_FILE_SIZE == 104857600
MAX_CHAT_HISTORY == 50
RESPONSE_LIMIT == 500
INDEXING_TIMEOUT == 300
POLL_SLEEP == 5

(***************************************************************************)
(* Bounds of the model                                                     *)
(***************************************************************************)
\* FileInfo objects that exist (the heap of records upload batches refer to)
NumRecs == 2
\* longest `files` list handed to upload_files
MaxFiles == 2
\* seconds one get_document call takes (the slow call takes twice that and a sleep)
PollLatency == 95
\* grounding chunks a vendor response may carry
MaxChunks == 2
\* corpora the vendor may list
MaxStores == 2
\* user actions (button presses) on the application
MaxClicks == 2
\* longest `files` list handed to upload_files where termination is checked
FairFiles == 1

RecIds == 1..NumRecs

\* st_size of the file a record's path names; Missing: the path names no file
Missing == -1
FileSizes == {Missing, MAX_FILE_SIZE, MAX_FILE_SIZE + 1}

Latencies == {PollLatency, 2 * PollLatency + POLL_SLEEP}

\* str(state) of the document get_document returns
DocStates == {"STATE_ACTIVE", "ACTIVE", "STATE_PENDING_PROCESSING", "None"}

\* shapes of a generate_content response, as the citation extraction sees them
ResponseShapes ==
    {"no_candidates", "no_grounding", "no_chunks", "chunks", "bad_chunks"}

VARIABLES
    files,      \* RecIds -> FileInfo: the FileInfo objects
    pc,         \* the worker's position in the manager's code
    op,         \* the manager operation the worker runs (or ran last)
    ret,        \* what the operation returned or raised
    attempt,    \* _retry_operation: the loop variable
    calls,      \* _retry_operation: times the operation was invoked
    delays,     \* _retry_operation: the time.sleep arguments, in order
    fails,      \* _retry_operation: the errors the attempts raised, in order
    rres,       \* _retry_operation: what it returned or raised
    reply,      \* _retry_operation: what the vendor did on the latest attempt
    request,    \* _retry_operation: what the latest attempt asked of the vendor
    qargs,      \* query_store: its arguments
    batch,      \* upload_files: the files argument, a list of FileInfo references
    has_cb,     \* upload_files: progress_callback is not None
    idx,        \* upload_files: position of the loop in batch
    progress,   \* upload_files: the UploadProgress object
    elapsed,    \* _wait_for_indexing: time.time() - start_time
    trace,      \* upload_files: per file started, what happened to it
    cb_log,     \* upload_files: the progress values handed to the callback
    cancelled,  \* ProgressDialog.cancelled of the dialog of the upload
    manager,    \* app: self.manager is set
    stores,     \* app: self.stores, by display name
    cache,      \* app: self.stores_data["stores"], by display name
    workers,    \* app: per user action, the worker thread it started
    after,      \* app: the calls handed to root.after(0, ...), not yet run
    log,        \* app: the entries _log wrote, with the thread that wrote
    shown,      \* app: the messagebox.showerror dialogs shown
    touched,    \* app: the widgets read or written, with the thread
    event,      \* app: the latest handler run for a user action, its inputs
    clicks,     \* app: user actions so far
    mgr_calls,  \* app: the manager operations called
    raised,     \* app: the manager operations that raised
    chat_history, \* app: self.chat_history
    completed,  \* app: queries that returned a result so far
    status_bar, \* app: the text of self.status_bar
    outcome,    \* app: per user action, what became of its query's result
    locals,     \* app: per user action, what its create-and-upload holds
    upload_thread, \* app: self.upload_thread (0 stands for None)
    closed,     \* app: what _on_close did
    lock        \* manager: the thread that holds self._lock (0: not held)

vars == <<files, pc, op, ret, attempt, calls, delays, fails, rres, reply,
          request, qargs, batch, has_cb, idx, progress, elapsed, trace, cb_log,
          cancelled, manager, stores, cache, workers, after, log, shown,
          touched, event, clicks, mgr_calls, raised, chat_history, completed,
          status_bar, outcome, locals, upload_thread, closed, lock>>

retry_vars == <<attempt, calls, delays, fails, rres, reply, request>>
upload_vars == <<batch, has_cb, idx, progress, elapsed, trace, cb_log>>

app_vars == <<manager, stores, cache, workers, after, log, shown, touched,
              event, clicks, mgr_calls, raised, chat_history, completed,
              status_bar, outcome, locals, upload_thread, closed>>

\* the application's state that only some handlers and workers write
own_vars == <<status_bar, outcome, locals, upload_thread, closed>>

\* what no step inside a manager operation writes
idle_vars == <<qargs, cancelled, lock, app_vars>>

mgr_vars == <<files, pc, op, ret, retry_vars, qargs, upload_vars, cancelled,
              lock>>

(***************************************************************************)
(* Values                                                                  *)
(***************************************************************************)
\* an exception: its class, the vendor call and attempt that raised it, str(e)
Err(type, rpc, a, msg) == [type |-> type, rpc |-> rpc, attempt |-> a, msg |-> msg]

VendorError(rpc, a) == Err("VendorError", rpc, a, "vendor call failed")
SizeError == Err("ValueError", "", 0, "File exceeds maximum size of 100MB")
StatError == Err("OSError", "", 0, "No such file or directory")
TimeoutError == Err("TimeoutError", "", 0, "Indexing timed out")
ExtractError(a) == Err("TypeError", "extract", a, "object is not iterable")

Str(e) == e.msg

NoRet == [kind |-> "none"]
NoReply == [shape |-> "none", chunks |-> 0]
NoRequest == [rpc |-> "none"]
NoArgs == [store_name |-> "", query |-> "", metadata_filter |-> ""]
Returned(v) == [kind |-> "value", val |-> v]
Raised(e) == [kind |-> "raise", err |-> e]

\* FileInfo.__post_init__: size_kb from the file's size, 0 when stat fails
SizeKb(st_size) == IF st_size = Missing THEN 0 ELSE st_size \div 1024

NewFileInfo(st_size) ==
    [st_size |-> st_size, size_kb |-> SizeKb(st_size),
     status |-> "pending", error_msg |-> ""]

\* UploadProgress(total_files = n); current_file 0 stands for ""
NewProgress(n) ==
    [total_files |-> n, completed_files |-> 0, failed_files |-> 0,
     current_file |-> 0, total_tokens |-> 0, is_cancelled |-> FALSE]

\* a percent that counts every processed file
PercentOfProcessed(p) ==
    IF p.total_files = 0
    THEN [num |-> 0, den |-> 1]
    ELSE [num |-> (p.completed_files + p.failed_files) * 100, den |-> p.total_files]

\* UploadProgress.percent, as the exact fraction num/den
Percent(p) ==
    IF p.total_files = 0
    THEN [num |-> 0, den |-> 1]
    ELSE [num |-> p.completed_files * 100, den |-> p.total_files]

\* Path(file_info.path).name: records are named by their id
FileName(r) == r

ClickIds == 1..MaxClicks

NoWorker == [kind |-> "none", pc |-> "none", cbs |-> 0, tmp |-> <<>>]

\* no query result displayed and no history entry appended for the action
NoOutcome == [displayed |-> FALSE, appended |-> 0]

\* no create-and-upload: no file selected, store_id unbound, upload_files not
\* called (0 stands for no store)
NoLocals == [status |-> "none", store_id |-> 0, store_name |-> 0]

\* the window is open and no question was asked
NotClosed == [destroyed |-> FALSE, asked |-> FALSE, uploading |-> FALSE]

NoEvent ==
    [handler |-> "none", click |-> 0, manager |-> FALSE, name_ok |-> FALSE,
     nfiles |-> 0, sel |-> "", query_ok |-> FALSE, listed |-> FALSE]

\* the application with no manager, nothing listed and nothing asked
AppAtRest ==
    /\ manager = FALSE
    /\ stores = {}
    /\ cache = {}
    /\ workers = [c \in ClickIds |-> NoWorker]
    /\ after = <<>>
    /\ log = {}
    /\ shown = {}
    /\ touched = {}
    /\ event = NoEvent
    /\ clicks = 0
    /\ mgr_calls = {}
    /\ raised = {}
    /\ chat_history = <<>>
    /\ completed = 0
    /\ status_bar = "Ready"
    /\ outcome = [c \in ClickIds |-> NoOutcome]
    /\ locals = [c \in ClickIds |-> NoLocals]
    /\ upload_thread = 0
    /\ closed = NotClosed

\* The FileInfo objects are interchangeable (a batch may list them in any
\* order), so they are created in order of size.
Init ==
    /\ AppAtRest
    /\ files \in {f \in [RecIds -> {NewFileInfo(s) : s \in FileSizes}] :
                     \A i, j \in RecIds : i < j => f[i].st_size <= f[j].st_size}
    /\ pc = "idle"
    /\ op = "none"
    /\ ret = NoRet
    /\ attempt = 0
    /\ calls = 0
    /\ delays = <<>>
    /\ fails = <<>>
    /\ rres = NoRet
    /\ reply = NoReply
    /\ request = NoRequest
    /\ qargs = NoArgs
    /\ batch = <<>>
    /\ has_cb = FALSE
    /\ idx = 0
    /\ progress = NewProgress(0)
    /\ elapsed = 0
    /\ trace = <<>>
    /\ cb_log = <<>>
    /\ cancelled = FALSE
    /\ lock = 0

(***************************************************************************)
(* _retry_operation                                                        *)
(***************************************************************************)
RetryPcs == {"create", "list", "delete", "query", "upload_file", "add_file"}

\* a handler that sleeps after every failure, the last one too
SleepsAfterEveryFailure(a) == a < MAX_RETRIES

\* `if attempt < MAX_RETRIES - 1`: another attempt follows a failure
MoreAttempts(a) == a < MAX_RETRIES - 1

\* a backoff that does not grow
BackoffFlat(a) == RETRY_DELAY

\* the argument of time.sleep after the failure of attempt a
Backoff(a) == RETRY_DELAY * (2 ^ a)

\* raising the first error seen instead of the one being handled
ReraisedFirst(errs) == errs[1]

\* a bare `raise` in the handler: the exception being handled, the latest
Reraised(errs) == errs[Len(errs)]

\* the object a vendor call returns; it is stamped with the attempt that got it
VendorObject(rpc, a) == [rpc |-> rpc, attempt |-> a]

(***************************************************************************)
(* query_store: the operation _query that _retry_operation runs            *)
(***************************************************************************)
\* what model.generate_content does: raise, or return a response
GenerateReplies ==
    {[shape |-> s, chunks |-> 0] : s \in (ResponseShapes \ {"chunks"}) \cup {"raises"}}
        \cup {[shape |-> "chunks", chunks |-> n] : n \in 0..MaxChunks}

\* an extraction that reads grounding chunks off a candidate that has no
\* grounding metadata
ExtractCitationsUnguarded(r, a) ==
    IF r.shape \in {"no_grounding", "no_chunks", "bad_chunks"}
    THEN Raised(ExtractError(a))
    ELSE Returned([i \in 1..r.chunks |-> [source |-> i, text |-> i]])

\* the citation loop over response.candidates: the list built, or the error
\* raised on the way (grounding_chunks that cannot be iterated)
ExtractCitations(r, a) ==
    CASE r.shape = "no_candidates" -> Returned(<<>>)
      [] r.shape = "no_grounding" -> Returned(<<>>)
      [] r.shape = "no_chunks" -> Returned(<<>>)
      [] r.shape = "chunks" ->
            Returned([i \in 1..r.chunks |-> [source |-> i, text |-> i]])
      [] r.shape = "bad_chunks" -> Raised(ExtractError(a))

\* result.grounding_metadata is set when a candidate has the attribute
HasGrounding(r) == r.shape \in {"no_chunks", "chunks", "bad_chunks"}

\* _query on attempt a, the vendor replying r: a QueryResult, or an error.
\* The response text is stamped with the attempt; usage metadata is absent.
QueryOperation(r, a) ==
    IF r.shape = "raises"
    THEN Raised(VendorError("generate_content", a))
    ELSE LET c == ExtractCitations(r, a)
         IN IF c.kind = "raise"
            THEN c
            ELSE Returned([text |-> VendorObject("generate_content", a),
                           citations |-> c.val,
                           grounding_metadata |-> HasGrounding(r),
                           tokens_used |-> 0])

\* the stores the caller may name, the query text, the metadata filters
QueryStores == {"corpora/a", "corpora/b"}
QueryTexts == {"what is x"}
Filters == {"None", "author=x"}

\* what _query asks of the vendor: the GenerativeModel it builds (model name
\* and tools) and the contents it hands to generate_content
GenerateRequest(store_name, query, metadata_filter) ==
    [rpc |-> "generate_content",
     model_name |-> "GEMINI_MODEL",
     tools |-> <<[google_search_retrieval |->
                     [mode |-> "MODE_DYNAMIC", dynamic_threshold |-> "0.5"]]>>,
     contents |-> query]

(***************************************************************************)
(* list_stores: the operation _list that _retry_operation runs             *)
(***************************************************************************)
\* A string is modelled by the tuple of its parts between "/" characters:
\* "corpora/alpha" is <<"corpora", "alpha">>, "Docs" is <<"Docs">>, "" is <<>>.
\* An attribute of a vendor object is there with a value, or not there.
Absent == [has |-> FALSE, val |-> <<>>]
Attr(v) == [has |-> TRUE, val |-> v]

\* getattr(object, name, default)
GetAttr(a, default) == IF a.has THEN a.val ELSE default

\* name.split('/')[-1]
LastSegment(name) == <<name[Len(name)]>>

StoreSegments == <<"alpha", "beta", "gamma", "delta">>

\* the name of the i-th corpus the vendor yields
CorpusName(i) ==
    IF i % 2 = 1 THEN <<"corpora", StoreSegments[i]>> ELSE <<StoreSegments[i]>>

\* display_name of a corpus: not there, empty, or a name
DisplayNames == {Absent, Attr(<<>>), Attr(<<"Docs">>)}

\* what retriever.list_corpora does: raise, or yield corpora
ListReplies ==
    {[shape |-> "raises", chunks |-> 0]} \cup
    {[shape |-> "corpora", chunks |-> 0,
      corpora |-> [i \in 1..Len(d) |-> [name |-> CorpusName(i), display_name |-> d[i]]]] :
        d \in UNION {[1..n -> DisplayNames] : n \in 0..MaxStores}}

\* a display name that falls back to the id also when the vendor's is empty
DisplayNameOrFallback(c) ==
    IF c.display_name.has /\ c.display_name.val # <<>>
    THEN c.display_name.val
    ELSE LastSegment(c.name)

\* `getattr(corpus, 'display_name', corpus.name.split('/')[-1])`
DisplayNameOf(c) == GetAttr(c.display_name, LastSegment(c.name))

\* the dictionary _list appends for corpus c (the corpora carry no file_count)
StoreDescriptor(c) ==
    [name |-> c.name, display_name |-> DisplayNameOf(c),
     file_count |-> GetAttr(Absent, 0)]

\* _list on attempt a, the vendor replying r: the list built, or the error
ListOperation(r, a) ==
    IF r.shape = "raises"
    THEN Raised(VendorError("list", a))
    ELSE Returned([i \in 1..Len(r.corpora) |-> StoreDescriptor(r.corpora[i])])

\* what a vendor call other than these does: raise, or return
CallReplies == {[shape |-> s, chunks |-> 0] : s \in {"ok", "raises"}}

RepliesOf(p) ==
    CASE p = "query" -> GenerateReplies
      [] p = "list" -> ListReplies
      [] OTHER -> CallReplies

\* what the operation at position p asks of the vendor
RequestOf(p) ==
    IF p = "query"
    THEN GenerateRequest(qargs.store_name, qargs.query, qargs.metadata_filter)
    ELSE [rpc |-> p]

\* _create, _delete, _upload, _add: the value returned when the vendor's
\* call returns
ValueOf(p, a) ==
    CASE p = "create" -> VendorObject("create_corpus", a)
      [] p = "delete" -> TRUE
      [] p = "upload_file" -> VendorObject("upload_file", a)
      [] p = "add_file" -> VendorObject("create_document", a)

\* the operation _retry_operation runs at position p, on attempt a, the
\* vendor replying r: what it returns or raises
Operation(p, r, a) ==
    CASE p = "query" -> QueryOperation(r, a)
      [] p = "list" -> ListOperation(r, a)
      [] OTHER -> IF r.shape = "raises"
                  THEN Raised(VendorError(p, a))
                  ELSE Returned(ValueOf(p, a))

\* entering _retry_operation
BeginRetry ==
    /\ attempt' = 0
    /\ calls' = 0
    /\ delays' = <<>>
    /\ fails' = <<>>
    /\ rres' = NoRet
    /\ reply' = NoReply
    /\ request' = NoRequest

\* an attempt returns: `return operation(*args, **kwargs)`
RetryReturns ==
    /\ attempt < MAX_RETRIES
    /\ \E r \in RepliesOf(pc) :
          /\ Operation(pc, r, attempt).kind = "value"
          /\ rres' = Operation(pc, r, attempt)
          /\ reply' = r
    /\ request' = RequestOf(pc)
    /\ calls' = calls + 1
    /\ UNCHANGED <<attempt, delays, fails>>

\* the last attempt raises: log, then `raise`
RetryRaises ==
    /\ attempt < MAX_RETRIES
    /\ ~MoreAttempts(attempt)
    /\ \E r \in RepliesOf(pc) :
          /\ Operation(pc, r, attempt).kind = "raise"
          /\ fails' = Append(fails, Operation(pc, r, attempt).err)
          /\ reply' = r
    /\ rres' = Raised(Reraised(fails'))
    /\ request' = RequestOf(pc)
    /\ calls' = calls + 1
    /\ UNCHANGED <<attempt, delays>>

\* one retry loop around both calls of a file: a failed add starts over at
\* the upload
RetryAgainFromUpload ==
    /\ pc \in RetryPcs
    /\ attempt < MAX_RETRIES
    /\ MoreAttempts(attempt)
    /\ \E r \in RepliesOf(pc) :
          /\ Operation(pc, r, attempt).kind = "raise"
          /\ fails' = Append(fails, Operation(pc, r, attempt).err)
          /\ reply' = r
    /\ request' = RequestOf(pc)
    /\ calls' = calls + 1
    /\ delays' = Append(delays, Backoff(attempt))
    /\ attempt' = attempt + 1
    /\ trace' = IF pc \in {"upload_file", "add_file"}
                THEN [trace EXCEPT ![idx].called = @ \cup {pc}]
                ELSE trace
    /\ pc' = IF pc = "add_file" THEN "upload_file" ELSE pc
    /\ UNCHANGED <<files, op, ret, rres, batch, has_cb, idx, progress,
                   elapsed, cb_log>>
    /\ UNCHANGED idle_vars

\* an attempt raises and another follows: log, sleep, loop
RetryAgain ==
    /\ pc \in RetryPcs
    /\ attempt < MAX_RETRIES
    /\ MoreAttempts(attempt)
    /\ \E r \in RepliesOf(pc) :
          /\ Operation(pc, r, attempt).kind = "raise"
          /\ fails' = Append(fails, Operation(pc, r, attempt).err)
          /\ reply' = r
    /\ request' = RequestOf(pc)
    /\ calls' = calls + 1
    /\ delays' = Append(delays, Backoff(attempt))
    /\ attempt' = attempt + 1
    /\ trace' = IF pc \in {"upload_file", "add_file"}
                THEN [trace EXCEPT ![idx].called = @ \cup {pc}]
                ELSE trace
    /\ UNCHANGED <<files, pc, op, ret, rres, batch, has_cb, idx, progress,
                   elapsed, cb_log>>
    /\ UNCHANGED idle_vars

(***************************************************************************)
(* Starting an operation: the worker is idle or its last call has ended    *)
(***************************************************************************)
Free == pc = "idle"

\* no upload_files call is running
NoUpload ==
    /\ batch' = <<>>
    /\ has_cb' = FALSE
    /\ idx' = 0
    /\ progress' = NewProgress(0)
    /\ elapsed' = 0
    /\ trace' = <<>>
    /\ cb_log' = <<>>

\* the caller has the result of the call and its worker ends: what is left
\* of the call is what it wrote to the FileInfo objects
WorkerEnds ==
    /\ pc = "done"
    /\ pc' = "idle"
    /\ op' = "none"
    /\ ret' = NoRet
    /\ BeginRetry
    /\ NoUpload
    /\ qargs' = NoArgs
    /\ cancelled' = FALSE
    /\ UNCHANGED <<files, lock, app_vars>>

(***************************************************************************)
(* validate_api_key                                                        *)
(***************************************************************************)
StartValidate ==
    /\ Free
    /\ op' = "validate_api_key"
    /\ pc' = "validate"
    /\ ret' = NoRet
    /\ BeginRetry
    /\ NoUpload
    /\ UNCHANGED files
    /\ UNCHANGED idle_vars

\* genai.list_models returned n models: `return len(list(models)) > 0`
ValidateReturns ==
    /\ pc = "validate"
    /\ \E n \in 0..1 :
          /\ reply' = [shape |-> "models", chunks |-> n]
          /\ ret' = Returned(n > 0)
    /\ request' = [rpc |-> "list_models"]
    /\ calls' = calls + 1
    /\ pc' = "done"
    /\ UNCHANGED <<files, op, attempt, delays, fails, rres, upload_vars>>
    /\ UNCHANGED idle_vars

\* genai.list_models raised: `except Exception`: log the error, return False
ValidateFails ==
    /\ pc = "validate"
    /\ reply' = [shape |-> "raises", chunks |-> 0]
    /\ ret' = Returned(FALSE)
    /\ request' = [rpc |-> "list_models"]
    /\ calls' = calls + 1
    /\ pc' = "done"
    /\ UNCHANGED <<files, op, attempt, delays, fails, rres, upload_vars>>
    /\ UNCHANGED idle_vars

(***************************************************************************)
(* create_store                                                            *)
(***************************************************************************)
StartCreate ==
    /\ Free
    /\ op' = "create_store"
    /\ pc' = "create"
    /\ ret' = NoRet
    /\ BeginRetry
    /\ NoUpload
    /\ UNCHANGED files
    /\ UNCHANGED idle_vars

\* _create returned store.name; create_store returns it
CreateReturns ==
    /\ pc = "create"
    /\ RetryReturns
    /\ ret' = rres'
    /\ pc' = "done"
    /\ UNCHANGED <<files, op, upload_vars>>
    /\ UNCHANGED idle_vars

\* the retries are exhausted; the error leaves create_store
CreateRaises ==
    /\ pc = "create"
    /\ RetryRaises
    /\ ret' = rres'
    /\ pc' = "done"
    /\ UNCHANGED <<files, op, upload_vars>>
    /\ UNCHANGED idle_vars

(***************************************************************************)
(* list_stores                                                             *)
(***************************************************************************)
StartList ==
    /\ Free
    /\ op' = "list_stores"
    /\ pc' = "list"
    /\ ret' = NoRet
    /\ BeginRetry
    /\ NoUpload
    /\ UNCHANGED files
    /\ UNCHANGED idle_vars

\* _list returned the list of dictionaries; list_stores returns it
ListReturns ==
    /\ pc = "list"
    /\ RetryReturns
    /\ ret' = rres'
    /\ pc' = "done"
    /\ UNCHANGED <<files, op, upload_vars>>
    /\ UNCHANGED idle_vars

\* the retries are exhausted; the error leaves list_stores
ListRaises ==
    /\ pc = "list"
    /\ RetryRaises
    /\ ret' = rres'
    /\ pc' = "done"
    /\ UNCHANGED <<files, op, upload_vars>>
    /\ UNCHANGED idle_vars

(***************************************************************************)
(* delete_store                                                            *)
(***************************************************************************)
StartDelete ==
    /\ Free
    /\ op' = "delete_store"
    /\ pc' = "delete"
    /\ ret' = NoRet
    /\ BeginRetry
    /\ NoUpload
    /\ UNCHANGED files
    /\ UNCHANGED idle_vars

\* a delete_store without its try/except
DeleteResultPropagates(r) == r

\* what delete_store makes of the result of _retry_operation(_delete)
DeleteResult(r) == IF r.kind = "raise" THEN Returned(FALSE) ELSE r

\* _delete returned True
DeleteReturns ==
    /\ pc = "delete"
    /\ RetryReturns
    /\ ret' = DeleteResult(rres')
    /\ pc' = "done"
    /\ UNCHANGED <<files, op, upload_vars>>
    /\ UNCHANGED idle_vars

\* `except Exception`: log the error, return False
DeleteFails ==
    /\ pc = "delete"
    /\ RetryRaises
    /\ ret' = DeleteResult(rres')
    /\ pc' = "done"
    /\ UNCHANGED <<files, op, upload_vars>>
    /\ UNCHANGED idle_vars

(***************************************************************************)
(* query_store                                                             *)
(***************************************************************************)
StartQuery ==
    /\ Free
    /\ op' = "query_store"
    /\ pc' = "query"
    /\ ret' = NoRet
    /\ BeginRetry
    /\ NoUpload
    /\ \E s \in QueryStores, q \in QueryTexts, f \in Filters :
          qargs' = [store_name |-> s, query |-> q, metadata_filter |-> f]
    /\ UNCHANGED <<files, cancelled, lock, app_vars>>

\* _query returned a QueryResult; query_store returns it
QueryReturns ==
    /\ pc = "query"
    /\ RetryReturns
    /\ ret' = rres'
    /\ pc' = "done"
    /\ UNCHANGED <<files, op, upload_vars>>
    /\ UNCHANGED idle_vars

\* the retries are exhausted; the error leaves query_store
QueryRaises ==
    /\ pc = "query"
    /\ RetryRaises
    /\ ret' = rres'
    /\ pc' = "done"
    /\ UNCHANGED <<files, op, upload_vars>>
    /\ UNCHANGED idle_vars

(***************************************************************************)
(* upload_files                                                            *)
(***************************************************************************)
\* a files argument: a list of references to FileInfo objects
Batches == UNION {[1..n -> RecIds] : n \in 0..MaxFiles}

NoErr == Err("", "", 0, "")

\* `str(state) == "STATE_ACTIVE" or str(state) == "ACTIVE"`
IsActive(st) == st = "STATE_ACTIVE" \/ st = "ACTIVE"

\* a ceiling that rejects the file of exactly MAX_FILE_SIZE bytes
OversizedInclusive(f) == f.st_size >= MAX_FILE_SIZE

\* `file_path.stat().st_size > MAX_FILE_SIZE`
Oversized(f) == f.st_size > MAX_FILE_SIZE

\* `file_info.status = "uploading"`
MarkUploading(f) == [f EXCEPT !.status = "uploading"]

\* an except clause that forgets the message
MarkErrorNoMsg(f, e) == [f EXCEPT !.status = "error"]

\* the except clause's writes to the file: status and error_msg
MarkError(f, e) == [f EXCEPT !.status = "error", !.error_msg = Str(e)]

\* `file_info.status = "completed"`
MarkCompleted(f) == [f EXCEPT !.status = "completed"]

\* an except clause that counts the file with the completed ones
CountFailedAsCompleted(p) == [p EXCEPT !.completed_files = @ + 1]

\* the except clause's write to the progress
CountFailed(p) == [p EXCEPT !.failed_files = @ + 1]

\* counting a completed file as processed in both counters
CountCompletedTwice(p, f) ==
    [p EXCEPT !.completed_files = @ + 1, !.failed_files = @ + 1,
              !.total_tokens = @ + f.size_kb]

\* the writes to the progress after a file is indexed
CountCompleted(p, f) ==
    [p EXCEPT !.completed_files = @ + 1, !.total_tokens = @ + f.size_kb]

\* the file whose turn it is
Cur == batch[idx]

\* the trace with vendor call rpc noted for the current file
Noted(rpc) == [trace EXCEPT ![idx].called = @ \cup {rpc}]

upload_files ==
    /\ Free
    /\ op' = "upload_files"
    /\ pc' = "loop"
    /\ ret' = NoRet
    /\ BeginRetry
    /\ \E b \in Batches : batch' = b /\ progress' = NewProgress(Len(b))
    /\ has_cb' \in BOOLEAN
    /\ idx' = 1
    /\ elapsed' = 0
    /\ trace' = <<>>
    /\ cb_log' = <<>>
    /\ UNCHANGED files
    /\ UNCHANGED idle_vars

\* a loop that names the file in the progress before it calls the callback
NextFileNamesFirst ==
    /\ pc = "loop"
    /\ idx <= Len(batch)
    /\ progress' = [progress EXCEPT !.current_file = FileName(Cur)]
    /\ cb_log' = IF has_cb THEN Append(cb_log, progress') ELSE cb_log
    /\ files' = [files EXCEPT ![Cur] = MarkUploading(@)]
    /\ trace' = Append(trace, [rec |-> Cur, called |-> {}, status |-> "uploading",
                               err |-> NoErr])
    /\ pc' = "size"
    /\ UNCHANGED <<op, ret, retry_vars, batch, has_cb, idx, elapsed>>
    /\ UNCHANGED idle_vars

\* the loop's next file: the callback (if any) returns, then the file is
\* named in the progress and marked uploading
NextFile ==
    /\ pc = "loop"
    /\ idx <= Len(batch)
    /\ cb_log' = IF has_cb THEN Append(cb_log, progress) ELSE cb_log
    /\ progress' = [progress EXCEPT !.current_file = FileName(Cur)]
    /\ files' = [files EXCEPT ![Cur] = MarkUploading(@)]
    /\ trace' = Append(trace, [rec |-> Cur, called |-> {}, status |-> "uploading",
                               err |-> NoErr])
    /\ pc' = "size"
    /\ UNCHANGED <<op, ret, retry_vars, batch, has_cb, idx, elapsed>>
    /\ UNCHANGED idle_vars

\* the callback raises at the head of the loop: nothing catches it
CallbackRaises ==
    /\ pc = "loop"
    /\ idx <= Len(batch)
    /\ has_cb
    /\ cb_log' = Append(cb_log, progress)
    /\ ret' = Raised(Err("CallbackError", "", 0, "callback failed"))
    /\ pc' = "done"
    /\ UNCHANGED <<files, op, retry_vars, batch, has_cb, idx, progress, elapsed,
                   trace>>
    /\ UNCHANGED idle_vars

\* the except clause of the loop body, for error e, with trace tr; the loop
\* then goes on to the next file
FileFailed(e, tr) ==
    /\ files' = [files EXCEPT ![Cur] = MarkError(@, e)]
    /\ progress' = CountFailed(progress)
    /\ trace' = [tr EXCEPT ![idx].status = "error", ![idx].err = e]
    /\ idx' = idx + 1
    /\ pc' = "loop"

\* stat() fails, or the file is over the ceiling
SizeCheckFails ==
    /\ pc = "size"
    /\ \/ files[Cur].st_size = Missing /\ FileFailed(StatError, trace)
       \/ files[Cur].st_size # Missing /\ Oversized(files[Cur])
            /\ FileFailed(SizeError, trace)
    /\ UNCHANGED <<op, ret, retry_vars, batch, has_cb, elapsed, cb_log>>
    /\ UNCHANGED idle_vars

\* the size check passes: _upload_single_file enters _retry_operation
SizeCheckPasses ==
    /\ pc = "size"
    /\ files[Cur].st_size # Missing
    /\ ~Oversized(files[Cur])
    /\ BeginRetry
    /\ pc' = "upload_file"
    /\ UNCHANGED <<files, op, ret, upload_vars>>
    /\ UNCHANGED idle_vars

\* genai.upload_file returned the file object
UploadFileReturns ==
    /\ pc = "upload_file"
    /\ RetryReturns
    /\ trace' = Noted("upload_file")
    /\ pc' = "uploaded"
    /\ UNCHANGED <<files, op, ret, batch, has_cb, idx, progress, elapsed, cb_log>>
    /\ UNCHANGED idle_vars

\* the upload's retries are exhausted
UploadFileRaises ==
    /\ pc = "upload_file"
    /\ RetryRaises
    /\ FileFailed(rres'.err, Noted("upload_file"))
    /\ UNCHANGED <<op, ret, batch, has_cb, elapsed, cb_log>>
    /\ UNCHANGED idle_vars

\* _add_file_to_corpus enters _retry_operation
BeginAdd ==
    /\ pc = "uploaded"
    /\ BeginRetry
    /\ pc' = "add_file"
    /\ UNCHANGED <<files, op, ret, upload_vars>>
    /\ UNCHANGED idle_vars

\* a loop body that marks the file completed as soon as it is added
AddFileCompletes ==
    /\ pc = "add_file"
    /\ RetryReturns
    /\ files' = [files EXCEPT ![Cur] = MarkCompleted(@)]
    /\ progress' = CountCompleted(progress, files[Cur])
    /\ trace' = [Noted("add_file") EXCEPT ![idx].status = "completed"]
    /\ idx' = idx + 1
    /\ pc' = "loop"
    /\ UNCHANGED <<op, ret, batch, has_cb, elapsed, cb_log>>
    /\ UNCHANGED idle_vars

\* create_document returned the document; _wait_for_indexing reads the clock
AddFileReturns ==
    /\ pc = "add_file"
    /\ RetryReturns
    /\ trace' = Noted("add_file")
    /\ elapsed' = 0
    /\ pc' = "wait"
    /\ UNCHANGED <<files, op, ret, batch, has_cb, idx, progress, cb_log>>
    /\ UNCHANGED idle_vars

\* the add's retries are exhausted
AddFileRaises ==
    /\ pc = "add_file"
    /\ RetryRaises
    /\ FileFailed(rres'.err, Noted("add_file"))
    /\ UNCHANGED <<op, ret, batch, has_cb, elapsed, cb_log>>
    /\ UNCHANGED idle_vars

(***************************************************************************)
(* _wait_for_indexing, and the end of the loop body                        *)
(***************************************************************************)
\* a loop condition that polls once more at the timeout
WithinTimeoutInclusive(t) == t <= INDEXING_TIMEOUT

\* `while time.time() - start_time < timeout`
WithinTimeout(t) == t < INDEXING_TIMEOUT

\* a wait that reads start_time again once the budget is spent
AfterPollRestarts(t, lat) ==
    IF t + lat + POLL_SLEEP >= INDEXING_TIMEOUT
    THEN 0
    ELSE t + lat + POLL_SLEEP

\* the clock after a poll that took lat seconds and the sleep that follows;
\* beyond the timeout the value no longer matters
AfterPoll(t, lat) ==
    IF t + lat + POLL_SLEEP >= INDEXING_TIMEOUT
    THEN INDEXING_TIMEOUT
    ELSE t + lat + POLL_SLEEP

\* the poll sees an active document: the wait returns, the file is completed
PollActive ==
    /\ pc = "wait"
    /\ WithinTimeout(elapsed)
    /\ \E st \in DocStates : IsActive(st)
    /\ files' = [files EXCEPT ![Cur] = MarkCompleted(@)]
    /\ progress' = CountCompleted(progress, files[Cur])
    /\ trace' = [Noted("get_document") EXCEPT ![idx].status = "completed"]
    /\ idx' = idx + 1
    /\ pc' = "loop"
    /\ UNCHANGED <<op, ret, retry_vars, batch, has_cb, elapsed, cb_log>>
    /\ UNCHANGED idle_vars

\* the poll sees any other state: log it, sleep, look at the clock again
PollNotActive ==
    /\ pc = "wait"
    /\ WithinTimeout(elapsed)
    /\ \E st \in DocStates : ~IsActive(st)
    /\ \E lat \in Latencies : elapsed' = AfterPoll(elapsed, lat)
    /\ trace' = Noted("get_document")
    /\ UNCHANGED <<files, pc, op, ret, retry_vars, batch, has_cb, idx, progress,
                   cb_log>>
    /\ UNCHANGED idle_vars

\* get_document raises: nothing retries it, the loop body's except clause runs
PollRaises ==
    /\ pc = "wait"
    /\ WithinTimeout(elapsed)
    /\ FileFailed(VendorError("get_document", 0), Noted("get_document"))
    /\ UNCHANGED <<op, ret, retry_vars, batch, has_cb, elapsed, cb_log>>
    /\ UNCHANGED idle_vars

\* the loop condition fails: `raise TimeoutError`
WaitTimesOut ==
    /\ pc = "wait"
    /\ ~WithinTimeout(elapsed)
    /\ FileFailed(TimeoutError, trace)
    /\ UNCHANGED <<op, ret, retry_vars, batch, has_cb, elapsed, cb_log>>
    /\ UNCHANGED idle_vars

\* a loop that stops one file short of the end of the batch
UploadReturnsBeforeLast ==
    /\ pc = "loop"
    /\ idx >= Len(batch)
    /\ progress' = [progress EXCEPT !.current_file = 0]
    /\ cb_log' = IF has_cb THEN Append(cb_log, progress') ELSE cb_log
    /\ ret' = Returned("progress")
    /\ pc' = "done"
    /\ UNCHANGED <<files, op, retry_vars, batch, has_cb, idx, elapsed, trace>>
    /\ UNCHANGED idle_vars

\* after the loop: current_file is emptied, the callback (if any) returns,
\* the progress is returned
UploadReturns ==
    /\ pc = "loop"
    /\ idx > Len(batch)
    /\ progress' = [progress EXCEPT !.current_file = 0]
    /\ cb_log' = IF has_cb THEN Append(cb_log, progress') ELSE cb_log
    /\ ret' = Returned("progress")
    /\ pc' = "done"
    /\ UNCHANGED <<files, op, retry_vars, batch, has_cb, idx, elapsed, trace>>
    /\ UNCHANGED idle_vars

\* after the loop the callback raises: the error leaves upload_files
FinalCallbackRaises ==
    /\ pc = "loop"
    /\ idx > Len(batch)
    /\ has_cb
    /\ progress' = [progress EXCEPT !.current_file = 0]
    /\ cb_log' = Append(cb_log, progress')
    /\ ret' = Raised(Err("CallbackError", "", 0, "callback failed"))
    /\ pc' = "done"
    /\ UNCHANGED <<files, op, retry_vars, batch, has_cb, idx, elapsed, trace>>
    /\ UNCHANGED idle_vars

Next ==
    \/ StartValidate \/ ValidateReturns \/ ValidateFails
    \/ StartCreate \/ CreateReturns \/ CreateRaises
    \/ StartList \/ ListReturns \/ ListRaises
    \/ StartDelete \/ DeleteReturns \/ DeleteFails
    \/ StartQuery \/ QueryReturns \/ QueryRaises
    \/ RetryAgain
    \/ upload_files \/ NextFile \/ CallbackRaises
    \/ SizeCheckFails \/ SizeCheckPasses
    \/ UploadFileReturns \/ UploadFileRaises
    \/ BeginAdd \/ AddFileReturns \/ AddFileRaises
    \/ PollActive \/ PollNotActive \/ PollRaises \/ WaitTimesOut
    \/ UploadReturns \/ FinalCallbackRaises
    \/ WorkerEnds

Spec == Init /\ [][Next]_vars

(***************************************************************************)
(* The Cancel button of the progress dialog of an upload                   *)
(***************************************************************************)
\* ProgressDialog._cancel while the upload the dialog was opened for runs:
\* the dialog's flag is set; the dialog was given no on_cancel
Cancel ==
    /\ op = "upload_files"
    /\ has_cb
    /\ pc \notin {"idle", "done"}
    /\ ~cancelled
    /\ cancelled' = TRUE
    /\ UNCHANGED <<files, pc, op, ret, retry_vars, qargs, upload_vars, lock,
                   app_vars>>

\* The worker thread keeps running, every get_document call returns or raises
\* and every sleep ends: a step of the indexing wait that can be taken is
\* taken in the end.
WaitStep == PollActive \/ PollNotActive \/ PollRaises \/ WaitTimesOut

\* upload_files called with a short list of files
UploadShortBatch == upload_files /\ Len(batch') <= FairFiles

NextFair ==
    \/ StartValidate \/ ValidateReturns \/ ValidateFails
    \/ StartCreate \/ CreateReturns \/ CreateRaises
    \/ StartList \/ ListReturns \/ ListRaises
    \/ StartDelete \/ DeleteReturns \/ DeleteFails
    \/ StartQuery \/ QueryReturns \/ QueryRaises
    \/ RetryAgain
    \/ UploadShortBatch \/ NextFile \/ CallbackRaises
    \/ SizeCheckFails \/ SizeCheckPasses
    \/ UploadFileReturns \/ UploadFileRaises
    \/ BeginAdd \/ AddFileReturns \/ AddFileRaises
    \/ PollActive \/ PollNotActive \/ PollRaises \/ WaitTimesOut
    \/ UploadReturns \/ FinalCallbackRaises
    \/ WorkerEnds

SpecFair == Init /\ [][NextFair]_vars /\ WF_vars(WaitStep)

NextCancel == Next \/ Cancel

SpecCancel == Init /\ [][NextCancel]_vars

(***************************************************************************)
(* GeminiFileStoreApp: values                                              *)
(***************************************************************************)
\* the display names the vendor may list, and what the store selector holds
AppStores == {"Docs"}
Selections == {"", "Docs", "Gone"}

\* len(result.text) of a query result
ResponseLengths == {RESPONSE_LIMIT, RESPONSE_LIMIT + 1}

\* len(text[:500])
Truncate(n) == IF n > RESPONSE_LIMIT THEN RESPONSE_LIMIT ELSE n

\* q[-n:]
LastN(q, n) == IF Len(q) <= n THEN q ELSE SubSeq(q, Len(q) - n + 1, Len(q))

\* the history after HistoryAtStart queries asked one at a time
HistoryAtStart == MAX_CHAT_HISTORY

FilledHistory ==
    [i \in 1..HistoryAtStart |-> [stamp |-> i, response |-> RESPONSE_LIMIT]]

\* The application after construction (a manager is set when an API key was
\* found, and then the stores were listed or taken from the cache), with a
\* chat history that is empty or that of HistoryAtStart earlier queries.
InitApp ==
    /\ files = [r \in RecIds |-> NewFileInfo(Missing)]
    /\ pc = "idle"
    /\ op = "none"
    /\ ret = NoRet
    /\ attempt = 0
    /\ calls = 0
    /\ delays = <<>>
    /\ fails = <<>>
    /\ rres = NoRet
    /\ reply = NoReply
    /\ request = NoRequest
    /\ qargs = NoArgs
    /\ batch = <<>>
    /\ has_cb = FALSE
    /\ idx = 0
    /\ progress = NewProgress(0)
    /\ elapsed = 0
    /\ trace = <<>>
    /\ cb_log = <<>>
    /\ cancelled = FALSE
    /\ manager \in BOOLEAN
    /\ stores \in SUBSET AppStores
    /\ ~manager => stores = {}
    /\ cache \in SUBSET AppStores
    /\ workers = [c \in ClickIds |-> NoWorker]
    /\ after = <<>>
    /\ log = {}
    /\ shown = {}
    /\ touched = {}
    /\ event = NoEvent
    /\ clicks = 0
    /\ mgr_calls = {}
    /\ raised = {}
    /\ \/ chat_history = <<>> /\ completed = 0
       \/ chat_history = FilledHistory /\ completed = HistoryAtStart
    /\ status_bar = "Ready"
    /\ outcome = [c \in ClickIds |-> NoOutcome]
    /\ locals = [c \in ClickIds |-> NoLocals]
    /\ upload_thread = 0
    /\ closed = NotClosed
    /\ lock = 0

\* the widgets ws read or written by a thread
Touch(ws, thread) == touched \cup {[widget |-> w, thread |-> thread] : w \in ws}

\* _log: lg with an entry of the thread for user action c
Logged(lg, c, level, thread) ==
    lg \cup {[click |-> c, level |-> level, thread |-> thread]}

\* mc with manager operation o called for user action c
Called(mc, c, o) == mc \cup {[click |-> c, op |-> o]}

\* a worker thread of the kind, about to call the manager
Started(kind) == [NoWorker EXCEPT !.kind = kind, !.pc = "call"]

\* root.after(0, call) for user action c
Deferred(call, c) == [call |-> call, click |-> c]

(***************************************************************************)
(* GeminiFileStoreApp: the handlers of the GUI thread                      *)
(***************************************************************************)
\* a check that does not look at the selected files
CreateInputsValidNoFiles(m, name_ok, nfiles) == m /\ name_ok

\* _create_store: no early return is taken
CreateInputsValid(m, name_ok, nfiles) == m /\ name_ok /\ nfiles > 0

\* _submit_query: no early return is taken
QueryInputsValid(m, sel, query_ok, listed) ==
    m /\ sel # "" /\ query_ok /\ listed

\* _create_store: the three checks, then the worker create_and_upload
CreateStore ==
    /\ clicks < MaxClicks
    /\ clicks' = clicks + 1
    /\ \E name_ok \in BOOLEAN, nfiles \in 0..1 :
          /\ event' = [NoEvent EXCEPT !.handler = "create_store",
                                      !.click = clicks', !.manager = manager,
                                      !.name_ok = name_ok, !.nfiles = nfiles]
          /\ IF CreateInputsValid(manager, name_ok, nfiles)
             THEN /\ workers' = [workers EXCEPT ![clicks'] = Started("create")]
                  /\ locals' = [locals EXCEPT ![clicks'].status = "pending"]
                  /\ UNCHANGED shown
             ELSE /\ shown' = shown \cup {[click |-> clicks', kind |-> "validation"]}
                  /\ UNCHANGED <<workers, locals>>
    /\ touched' = IF manager THEN Touch({"new_store_form"}, "gui") ELSE touched
    /\ UNCHANGED <<manager, stores, cache, after, log, mgr_calls, raised,
                   chat_history, completed>>
    /\ UNCHANGED <<status_bar, outcome, upload_thread, closed>>
    /\ UNCHANGED mgr_vars

\* _submit_query: the four checks, then the status bar and the worker do_query
SubmitQuery ==
    /\ clicks < MaxClicks
    /\ clicks' = clicks + 1
    /\ \E sel \in Selections, query_ok \in BOOLEAN :
          /\ event' = [NoEvent EXCEPT !.handler = "submit_query",
                                      !.click = clicks', !.manager = manager,
                                      !.sel = sel, !.query_ok = query_ok,
                                      !.listed = sel \in stores]
          /\ IF QueryInputsValid(manager, sel, query_ok, sel \in stores)
             THEN /\ workers' = [workers EXCEPT ![clicks'] = Started("query")]
                  /\ touched' = Touch({"query_form", "status_bar"}, "gui")
                  /\ status_bar' = "Querying..."
                  /\ UNCHANGED shown
             ELSE /\ shown' = shown \cup {[click |-> clicks', kind |-> "validation"]}
                  /\ touched' = IF manager THEN Touch({"query_form"}, "gui")
                                ELSE touched
                  /\ UNCHANGED <<workers, status_bar>>
    /\ UNCHANGED <<manager, stores, cache, after, log, mgr_calls, raised,
                   chat_history, completed>>
    /\ UNCHANGED <<outcome, locals, upload_thread, closed>>
    /\ UNCHANGED mgr_vars

\* _refresh_stores on the GUI thread with a manager set, for user action c,
\* the log being lg and the manager's calls mc before it: list_stores
\* returns, or it raises and the cache is shown
RefreshBody(c, lg, mc) ==
    \/ /\ manager
       /\ mgr_calls' = Called(mc, c, "list_stores")
       /\ \E s \in SUBSET AppStores : stores' = s /\ cache' = s
       /\ log' = Logged(lg, c, "INFO", "gui")
       /\ touched' = Touch({"stores_tree", "store_combo", "log_panel"}, "gui")
       /\ UNCHANGED raised
    \/ /\ manager
       /\ mgr_calls' = Called(mc, c, "list_stores")
       /\ raised' = Called(raised, c, "list_stores")
       /\ log' = Logged(lg, c, "ERROR", "gui")
       /\ stores' = cache
       /\ touched' = Touch({"stores_tree", "log_panel"}, "gui")
       /\ UNCHANGED cache

\* the user asks for a refresh: without a manager _refresh_stores logs a
\* warning and returns
RefreshStores ==
    /\ clicks < MaxClicks
    /\ clicks' = clicks + 1
    /\ event' = [NoEvent EXCEPT !.handler = "refresh_stores", !.click = clicks',
                                !.manager = manager]
    /\ \/ /\ ~manager
          /\ log' = Logged(log, clicks', "WARNING", "gui")
          /\ touched' = Touch({"log_panel"}, "gui")
          /\ UNCHANGED <<stores, cache, mgr_calls, raised>>
       \/ RefreshBody(clicks', log, mgr_calls)
    /\ UNCHANGED <<manager, workers, after, shown, chat_history, completed>>
    /\ UNCHANGED own_vars
    /\ UNCHANGED mgr_vars

\* _delete_selected_store with a store selected and the question answered
\* yes (a store is listed only when a manager is set): delete_store returns
\* True and the stores are refreshed, or it returns False
DeleteSelectedStore ==
    /\ clicks < MaxClicks
    /\ stores # {}
    /\ manager
    /\ clicks' = clicks + 1
    /\ event' = [NoEvent EXCEPT !.handler = "delete_store", !.click = clicks',
                                !.manager = manager]
    /\ \/ RefreshBody(clicks', Logged(log, clicks', "INFO", "gui"),
                      Called(mgr_calls, clicks', "delete_store"))
       \/ /\ mgr_calls' = Called(mgr_calls, clicks', "delete_store")
          /\ log' = Logged(log, clicks', "ERROR", "gui")
          /\ touched' = Touch({"stores_tree", "log_panel"}, "gui")
          /\ UNCHANGED <<stores, cache, raised>>
    /\ UNCHANGED <<manager, workers, after, shown, chat_history, completed>>
    /\ UNCHANGED own_vars
    /\ UNCHANGED mgr_vars

(***************************************************************************)
(* GeminiFileStoreApp: the worker threads                                  *)
(***************************************************************************)
\* the except clause of a worker for user action c, manager operation o
\* having raised: _log and root.after(showerror) from the worker thread; the
\* worker is then still inside the clause, where `e` is bound
WorkerHandles(c, o) ==
    /\ mgr_calls' = Called(mgr_calls, c, o)
    /\ raised' = Called(raised, c, o)
    /\ log' = Logged(log, c, "ERROR", "worker")
    /\ after' = Append(after, Deferred("showerror", c))
    /\ workers' = [workers EXCEPT ![c].pc = "except"]

\* the id create_store returns for the store of user action c: the vendor
\* gives every store an id of its own
CreatedId(c) == c

\* create_and_upload: create_store returned
CreateAndUploadReturns(c) ==
    /\ workers[c].kind = "create"
    /\ workers[c].pc = "call"
    /\ mgr_calls' = Called(mgr_calls, c, "create_store")
    /\ locals' = [locals EXCEPT ![c].store_id = CreatedId(c)]
    /\ log' = Logged(log, c, "INFO", "worker")
    /\ touched' = Touch({"store_desc_var", "log_panel"}, "worker")
    /\ after' = Append(after, Deferred("show_upload_progress", c))
    /\ workers' = [workers EXCEPT ![c] = NoWorker]
    /\ UNCHANGED <<manager, stores, cache, shown, event, clicks, raised,
                   chat_history, completed>>
    /\ UNCHANGED <<status_bar, outcome, upload_thread, closed>>
    /\ UNCHANGED mgr_vars

\* a worker that shows the upload dialog whether or not create_store raised
CreateAndUploadUploadsAnyway(c) ==
    /\ workers[c].kind = "create"
    /\ workers[c].pc = "call"
    /\ mgr_calls' = Called(mgr_calls, c, "create_store")
    /\ raised' = Called(raised, c, "create_store")
    /\ log' = Logged(log, c, "ERROR", "worker")
    /\ after' = after \o <<Deferred("showerror", c),
                            Deferred("show_upload_progress", c)>>
    /\ workers' = [workers EXCEPT ![c].pc = "except"]
    /\ touched' = Touch({"store_desc_var", "log_panel"}, "worker")
    /\ UNCHANGED <<manager, stores, cache, shown, event, clicks, chat_history,
                   completed>>
    /\ UNCHANGED own_vars
    /\ UNCHANGED mgr_vars

\* create_and_upload: create_store raised
CreateAndUploadRaises(c) ==
    /\ workers[c].kind = "create"
    /\ workers[c].pc = "call"
    /\ WorkerHandles(c, "create_store")
    /\ touched' = Touch({"store_desc_var", "log_panel"}, "worker")
    /\ UNCHANGED <<manager, stores, cache, shown, event, clicks, chat_history,
                   completed>>
    /\ UNCHANGED own_vars
    /\ UNCHANGED mgr_vars

\* the end of an except clause unbinds `e`; the worker thread ends
WorkerLeavesExcept(c) ==
    /\ workers[c].pc = "except"
    /\ workers' = [workers EXCEPT ![c] = NoWorker]
    /\ UNCHANGED <<manager, stores, cache, after, log, shown, touched, event,
                   clicks, mgr_calls, raised, chat_history, completed>>
    /\ UNCHANGED own_vars
    /\ UNCHANGED mgr_vars

\* the status upload_files gives the selected file next, k callbacks having
\* been made: after the first it is marked uploading, before the last it was
\* brought to completed or to error ("processed" stands for either)
FileStatusAfter(k) == IF k = 0 THEN "uploading" ELSE "processed"

\* one progress object kept on the manager: a callback of one upload moves
\* every running upload on
UploadCallbackShared(c) ==
    /\ workers[c].kind = "upload"
    /\ workers[c].pc = "call"
    /\ workers[c].cbs < 2
    /\ mgr_calls' = Called(mgr_calls, c, "upload_files")
    /\ after' = Append(after, Deferred("update_progress", c))
    /\ workers' = [d \in ClickIds |->
                      IF workers[d].kind = "upload" /\ workers[d].pc = "call"
                            /\ workers[d].cbs < 2
                      THEN [workers[d] EXCEPT !.cbs = @ + 1]
                      ELSE workers[d]]
    /\ locals' = [locals EXCEPT ![c].status = FileStatusAfter(workers[c].cbs)]
    /\ UNCHANGED <<manager, stores, cache, log, shown, touched, event, clicks,
                   raised, chat_history, completed>>
    /\ UNCHANGED <<status_bar, outcome, upload_thread, closed>>
    /\ UNCHANGED mgr_vars

\* upload: upload_files calls progress_callback (once before the file and
\* once at the end, for the one file selected)
UploadCallback(c) ==
    /\ workers[c].kind = "upload"
    /\ workers[c].pc = "call"
    /\ workers[c].cbs < 2
    /\ mgr_calls' = Called(mgr_calls, c, "upload_files")
    /\ after' = Append(after, Deferred("update_progress", c))
    /\ workers' = [workers EXCEPT ![c].cbs = @ + 1]
    /\ locals' = [locals EXCEPT ![c].status = FileStatusAfter(workers[c].cbs)]
    /\ UNCHANGED <<manager, stores, cache, log, shown, touched, event, clicks,
                   raised, chat_history, completed>>
    /\ UNCHANGED <<status_bar, outcome, upload_thread, closed>>
    /\ UNCHANGED mgr_vars

\* upload: upload_files returned
UploadWorkerReturns(c) ==
    /\ workers[c].kind = "upload"
    /\ workers[c].pc = "call"
    /\ workers[c].cbs = 2
    /\ after' = after \o <<Deferred("complete", c), Deferred("refresh_stores", c)>>
    /\ workers' = [workers EXCEPT ![c] = NoWorker]
    /\ UNCHANGED <<manager, stores, cache, log, shown, touched, event, clicks,
                   mgr_calls, raised, chat_history, completed>>
    /\ UNCHANGED own_vars
    /\ UNCHANGED mgr_vars

\* upload: upload_files raised (its callback did)
UploadWorkerRaises(c) ==
    /\ workers[c].kind = "upload"
    /\ workers[c].pc = "call"
    /\ workers[c].cbs < 2
    /\ WorkerHandles(c, "upload_files")
    /\ locals' = IF workers[c].cbs = 0
                 THEN locals
                 ELSE [locals EXCEPT ![c].status = FileStatusAfter(workers[c].cbs)]
    /\ touched' = Touch({"log_panel"}, "worker")
    /\ UNCHANGED <<manager, stores, cache, shown, event, clicks, chat_history,
                   completed>>
    /\ UNCHANGED <<status_bar, outcome, upload_thread, closed>>
    /\ UNCHANGED mgr_vars

\* do_query: query_store returned; the display is deferred and the entry
\* appended to the history
DoQueryReturns(c) ==
    /\ workers[c].kind = "query"
    /\ workers[c].pc = "call"
    /\ mgr_calls' = Called(mgr_calls, c, "query_store")
    /\ after' = Append(after, Deferred("display_result", c))
    /\ completed' = completed + 1
    /\ \E n \in ResponseLengths :
          chat_history' = Append(chat_history,
                                 [stamp |-> completed', response |-> Truncate(n)])
    /\ outcome' = [outcome EXCEPT ![c].appended = @ + 1]
    /\ workers' = [workers EXCEPT ![c].pc = "appended"]
    /\ UNCHANGED <<manager, stores, cache, log, shown, touched, event, clicks,
                   raised>>
    /\ UNCHANGED <<status_bar, locals, upload_thread, closed>>
    /\ UNCHANGED mgr_vars

\* do_query: `if len(self.chat_history) > MAX_CHAT_HISTORY`
DoQueryChecks(c) ==
    /\ workers[c].kind = "query"
    /\ workers[c].pc = "appended"
    /\ workers' = IF Len(chat_history) > MAX_CHAT_HISTORY
                  THEN [workers EXCEPT ![c].pc = "slice"]
                  ELSE [workers EXCEPT ![c] = NoWorker]
    /\ UNCHANGED <<manager, stores, cache, after, log, shown, touched, event,
                   clicks, mgr_calls, raised, chat_history, completed>>
    /\ UNCHANGED own_vars
    /\ UNCHANGED mgr_vars

\* do_query: the right-hand side `self.chat_history[-MAX_CHAT_HISTORY:]`
DoQuerySlices(c) ==
    /\ workers[c].kind = "query"
    /\ workers[c].pc = "slice"
    /\ workers' = [workers EXCEPT ![c].pc = "store",
                                  ![c].tmp = LastN(chat_history, MAX_CHAT_HISTORY)]
    /\ UNCHANGED <<manager, stores, cache, after, log, shown, touched, event,
                   clicks, mgr_calls, raised, chat_history, completed>>
    /\ UNCHANGED own_vars
    /\ UNCHANGED mgr_vars

\* do_query: the assignment `self.chat_history = ...`; the worker ends
DoQueryStores(c) ==
    /\ workers[c].kind = "query"
    /\ workers[c].pc = "store"
    /\ chat_history' = workers[c].tmp
    /\ workers' = [workers EXCEPT ![c] = NoWorker]
    /\ UNCHANGED <<manager, stores, cache, after, log, shown, touched, event,
                   clicks, mgr_calls, raised, completed>>
    /\ UNCHANGED own_vars
    /\ UNCHANGED mgr_vars

\* do_query: query_store raised
DoQueryRaises(c) ==
    /\ workers[c].kind = "query"
    /\ workers[c].pc = "call"
    /\ WorkerHandles(c, "query_store")
    /\ touched' = Touch({"log_panel"}, "worker")
    /\ UNCHANGED <<manager, stores, cache, shown, event, clicks, chat_history,
                   completed>>
    /\ UNCHANGED own_vars
    /\ UNCHANGED mgr_vars

(***************************************************************************)
(* GeminiFileStoreApp: the GUI thread runs the calls deferred to it        *)
(***************************************************************************)
\* _show_upload_progress: the dialog, and the worker upload
RunShowUploadProgress ==
    /\ after # <<>>
    /\ Head(after).call = "show_upload_progress"
    /\ after' = Tail(after)
    /\ touched' = Touch({"progress_dialog"}, "gui")
    /\ workers' = [workers EXCEPT ![Head(after).click] = Started("upload")]
    /\ locals' = [locals EXCEPT ![Head(after).click].store_name =
                                   locals[Head(after).click].store_id]
    /\ UNCHANGED <<manager, stores, cache, log, shown, event, clicks, mgr_calls,
                   raised, chat_history, completed>>
    /\ UNCHANGED <<status_bar, outcome, upload_thread, closed>>
    /\ UNCHANGED mgr_vars

\* dialog.update_progress, dialog.complete, _display_query_result
RunUpdate ==
    /\ after # <<>>
    /\ Head(after).call \in {"update_progress", "complete", "display_result"}
    /\ after' = Tail(after)
    /\ IF Head(after).call = "display_result"
       THEN /\ touched' = Touch({"results_panel", "status_bar"}, "gui")
            /\ status_bar' = "Query complete"
            /\ outcome' = [outcome EXCEPT ![Head(after).click].displayed = TRUE]
       ELSE /\ touched' = Touch({"progress_dialog"}, "gui")
            /\ UNCHANGED <<status_bar, outcome>>
    /\ UNCHANGED <<manager, stores, cache, workers, log, shown, event, clicks,
                   mgr_calls, raised, chat_history, completed>>
    /\ UNCHANGED <<locals, upload_thread, closed>>
    /\ UNCHANGED mgr_vars

\* the _refresh_stores deferred by the worker upload
RunRefreshStores ==
    /\ after # <<>>
    /\ Head(after).call = "refresh_stores"
    /\ after' = Tail(after)
    /\ RefreshBody(Head(after).click, log, mgr_calls)
    /\ UNCHANGED <<manager, workers, shown, event, clicks, chat_history,
                   completed>>
    /\ UNCHANGED own_vars
    /\ UNCHANGED mgr_vars

\* `lambda: messagebox.showerror(..., str(e))`: the dialog is shown when `e`
\* is still bound, that is while the worker is inside its except clause;
\* afterwards str(e) raises NameError and no dialog is shown
RunShowError ==
    /\ after # <<>>
    /\ Head(after).call = "showerror"
    /\ after' = Tail(after)
    /\ shown' = IF workers[Head(after).click].pc = "except"
                THEN shown \cup {[click |-> Head(after).click, kind |-> "error"]}
                ELSE shown
    /\ UNCHANGED <<manager, stores, cache, workers, log, touched, event, clicks,
                   mgr_calls, raised, chat_history, completed>>
    /\ UNCHANGED own_vars
    /\ UNCHANGED mgr_vars

NextApp ==
    \/ CreateStore \/ SubmitQuery \/ RefreshStores \/ DeleteSelectedStore
    \/ \E c \in ClickIds :
          \/ CreateAndUploadReturns(c) \/ CreateAndUploadRaises(c)
          \/ WorkerLeavesExcept(c)
          \/ UploadCallback(c) \/ UploadWorkerReturns(c) \/ UploadWorkerRaises(c)
          \/ DoQueryReturns(c) \/ DoQueryChecks(c) \/ DoQuerySlices(c)
          \/ DoQueryStores(c) \/ DoQueryRaises(c)
    \/ RunShowUploadProgress \/ RunUpdate \/ RunRefreshStores \/ RunShowError

SpecApp == InitApp /\ [][NextApp]_vars

(***************************************************************************)
(* GeminiFileStoreApp: closing the window                                  *)
(***************************************************************************)
\* threading.Thread.is_alive() of the upload worker of user action c
IsAlive(c) == workers[c].kind = "upload"

\* a worker `upload` is running
UploadRunning == \E c \in ClickIds : IsAlive(c)

\* _on_close: the question is asked when self.upload_thread is set and alive,
\* and the window is destroyed unless the answer is no
OnClose ==
    /\ ~closed.destroyed
    /\ IF upload_thread # 0 /\ IsAlive(upload_thread)
       THEN \E yes \in BOOLEAN :
               closed' = [destroyed |-> yes, asked |-> TRUE,
                          uploading |-> UploadRunning]
       ELSE closed' = [destroyed |-> TRUE, asked |-> FALSE,
                       uploading |-> UploadRunning]
    /\ UNCHANGED <<manager, stores, cache, workers, after, log, shown, touched,
                   event, clicks, mgr_calls, raised, chat_history, completed,
                   status_bar, outcome, locals, upload_thread>>
    /\ UNCHANGED mgr_vars

\* the application runs until its window is destroyed
NextClose == (~closed.destroyed /\ NextApp) \/ OnClose

SpecClose == InitApp /\ [][NextClose]_vars

(***************************************************************************)
(* Properties of _retry_operation and of the operations built on it        *)
(***************************************************************************)
\* the attempt stamped on the value _retry_operation returned
StampOf(v) ==
    CASE op = "query_store" -> v.text.attempt
      [] op \in {"delete_store", "list_stores"} -> Len(fails)
      [] OTHER -> v.attempt

StrictlyIncreasing(q) == \A i \in 1..(Len(q) - 1) : q[i] < q[i + 1]

\* C1: when _retry_operation returns after k failed attempts (k < MAX_RETRIES),
\* the failures were attempts 0..k-1, the operation was invoked exactly k+1
\* times, the value returned is the one the (k+1)-th invocation produced, one
\* delay was waited after each failure and the delays are strictly increasing.
RetryCountOnSuccess ==
    rres.kind = "value" =>
        LET k == Len(fails)
        IN /\ k < MAX_RETRIES
           /\ \A i \in 1..k : fails[i].attempt = i - 1
           /\ calls = k + 1
           /\ StampOf(rres.val) = k
           /\ op = "delete_store" => rres.val = TRUE
           /\ Len(delays) = k
           /\ StrictlyIncreasing(delays)

RetrySucceededAfterTwoFailures ==
    /\ rres.kind = "value"
    /\ Len(fails) = MAX_RETRIES - 1
    /\ Len(delays) = 2
    /\ delays[1] < delays[2]

\* C2: when _retry_operation raises, the operation was invoked exactly
\* MAX_RETRIES times, every invocation failed, and the error raised is the one
\* of the last invocation; the operation is never invoked more than
\* MAX_RETRIES times; create_store then ends by raising that error and
\* returns no store id, and it raises in no other case.
RetryExhaustion ==
    /\ calls <= MAX_RETRIES
    /\ rres.kind = "raise" =>
          /\ calls = MAX_RETRIES
          /\ Len(fails) = MAX_RETRIES
          /\ \A i \in 1..MAX_RETRIES : fails[i].attempt = i - 1
          /\ rres.err = fails[MAX_RETRIES]
          /\ rres.err.attempt = MAX_RETRIES - 1
    /\ (op = "create_store" /\ pc = "done") =>
          /\ ret = rres
          /\ ret.kind = "raise" <=> Len(fails) = MAX_RETRIES

CreateFailedAfterRetries ==
    /\ op = "create_store"
    /\ pc = "done"
    /\ ret.kind = "raise"
    /\ calls = MAX_RETRIES

\* C10: delete_store always ends by returning a boolean, never by raising:
\* TRUE exactly when an attempt of the vendor's delete succeeded (within
\* MAX_RETRIES attempts), FALSE after exactly MAX_RETRIES failed attempts.
DeleteNeverRaises ==
    (op = "delete_store" /\ pc = "done") =>
        /\ ret.kind = "value"
        /\ ret.val \in BOOLEAN
        /\ ret.val <=> (calls = Len(fails) + 1 /\ reply.shape = "ok")
        /\ calls <= MAX_RETRIES
        /\ ~ret.val => (calls = MAX_RETRIES /\ Len(fails) = MAX_RETRIES)

DeleteReturnedFalse ==
    /\ op = "delete_store"
    /\ pc = "done"
    /\ ret.kind = "value"
    /\ ret.val = FALSE

\* C9: when the response of generate_content has no grounding metadata (no
\* candidates, or candidates without the attribute), that attempt raises
\* nothing: query_store has returned a QueryResult whose citation list is
\* empty.
NoGroundingNoCitations ==
    (op = "query_store" /\ reply.shape \in {"no_candidates", "no_grounding"}) =>
        /\ pc = "done"
        /\ ret.kind = "value"
        /\ ret.val.citations = <<>>
        /\ ~ret.val.grounding_metadata
        /\ calls = Len(fails) + 1

QueryWithoutGroundingReturned ==
    /\ op = "query_store"
    /\ pc = "done"
    /\ reply.shape = "no_grounding"
    /\ ret.kind = "value"
    /\ Len(ret.val.citations) = 0

(***************************************************************************)
(* Properties of upload_files                                              *)
(***************************************************************************)
Positions == 1..Len(batch)

UploadReturned == op = "upload_files" /\ pc = "done" /\ ret.kind = "value"

\* the file at position j is the batch's only fault: it is over the ceiling,
\* every other file exists and is within it, and no file failed on a vendor
\* call or on the indexing wait
OnlyFaultIsSizeOf(j) ==
    /\ files[batch[j]].st_size > MAX_FILE_SIZE
    /\ \A i \in Positions \ {j} :
          /\ files[batch[i]].st_size # Missing
          /\ files[batch[i]].st_size <= MAX_FILE_SIZE
    /\ \A i \in 1..Len(trace) :
          trace[i].err.type \notin {"VendorError", "TimeoutError"}

\* C3: no vendor call is ever made for a file over the ceiling; and when
\* upload_files returns from a batch whose only fault is that the file at
\* position j is over the ceiling, that file has status error and no vendor
\* call was made for it, every other file (before and after j) is completed,
\* failed_files = 1 and completed_files = N - 1.
OversizedFileFailsAlone ==
    /\ \A i \in 1..Len(trace) :
          files[trace[i].rec].st_size > MAX_FILE_SIZE => trace[i].called = {}
    /\ UploadReturned =>
          \A j \in Positions :
             OnlyFaultIsSizeOf(j) =>
                /\ Len(trace) = Len(batch)
                /\ files[batch[j]].status = "error"
                /\ trace[j].status = "error"
                /\ trace[j].called = {}
                /\ \A i \in Positions \ {j} :
                      /\ trace[i].status = "completed"
                      /\ files[batch[i]].status = "completed"
                /\ progress.failed_files = 1
                /\ progress.completed_files = Len(batch) - 1

OversizedFirstThenCompleted ==
    /\ UploadReturned
    /\ Len(batch) = 2
    /\ OnlyFaultIsSizeOf(1)
    /\ files[batch[2]].status = "completed"
    /\ progress.failed_files = 1
    /\ progress.completed_files = 1

\* no later position of the trace is about the same FileInfo object
LastOf(i) == \A j \in (i + 1)..Len(trace) : trace[j].rec # trace[i].rec

\* C4: the files are started in input order, one at a time and none skipped;
\* a file that failed is marked error with the message of its error (until a
\* later position of the batch naming the same object overwrites it); no
\* file's error leaves upload_files, so that the loop goes on to every later
\* file: the call returns only after all files were started, and ends early
\* only when the progress callback raised.
FailureDoesNotStopBatch ==
    op = "upload_files" =>
        /\ Len(trace) <= Len(batch)
        /\ Len(trace) = IF pc \in {"loop", "done"} THEN idx - 1 ELSE idx
        /\ \A i \in 1..Len(trace) :
              /\ trace[i].rec = batch[i]
              /\ i < idx => trace[i].status \in {"completed", "error"}
              /\ trace[i].status = "error" =>
                    /\ trace[i].err # NoErr
                    /\ LastOf(i) =>
                          /\ files[trace[i].rec].status = "error"
                          /\ files[trace[i].rec].error_msg = Str(trace[i].err)
                          /\ files[trace[i].rec].error_msg # ""
        /\ pc = "done" =>
              /\ ret.kind = "value" => Len(trace) = Len(batch)
              /\ ret.kind = "raise" => ret.err.type = "CallbackError"

FailedFileThenCompletedFile ==
    /\ UploadReturned
    /\ Len(batch) = 2
    /\ trace[1].status = "error"
    /\ trace[1].err.type = "VendorError"
    /\ files[batch[1]].error_msg = Str(trace[1].err)
    /\ trace[2].status = "completed"

\* the steps a FileInfo's status may take
Advances(a, b) ==
    \/ a = b
    \/ a = "pending" /\ b = "uploading"
    \/ a = "uploading" /\ b \in {"completed", "error"}

\* C5: no step of the manager moves the status of a FileInfo otherwise than
\* pending -> uploading -> {completed, error}, also when upload_files is
\* handed a FileInfo that is already completed or error.
StatusOnlyAdvances ==
    [][\A r \in RecIds : Advances(files[r].status, files'[r].status)]_vars

Range(q) == {q[i] : i \in 1..Len(q)}

\* C6: in every state, and in every progress value handed to the callback,
\* completed_files + failed_files <= total_files.
ProgressBounded ==
    \A p \in {progress} \cup Range(cb_log) :
        p.completed_files + p.failed_files <= p.total_files

AllFilesCounted ==
    /\ UploadReturned
    /\ has_cb
    /\ Len(cb_log) = Len(batch) + 1
    /\ progress.completed_files > 0
    /\ progress.failed_files > 0
    /\ progress.completed_files + progress.failed_files = progress.total_files

\* the largest total_files of the progress values checked beyond the batches
MaxTotal == 6

\* what the specification says of the percent q of progress p
PercentAsSpecified(p) ==
    LET q == Percent(p)
    IN /\ q.den > 0
       /\ p.total_files = 0 => q.num = 0
       /\ p.total_files # 0 =>
             q.num * p.total_files = p.completed_files * 100 * q.den
       /\ 0 <= q.num
       /\ q.num <= 100 * q.den
       /\ \A f \in 0..p.total_files : Percent([p EXCEPT !.failed_files = f]) = q

\* C7: for every progress value with 0 <= completed <= total (those of the
\* batches, and all up to MaxTotal files), the percent is 0 when total is 0
\* and completed/total*100 otherwise; it lies in [0, 100] and does not depend
\* on failed_files. (The values up to MaxTotal do not depend on the state and
\* are gone through where the worker is idle.)
PercentFormula ==
    /\ \A p \in {progress} \cup Range(cb_log) : PercentAsSpecified(p)
    /\ pc = "idle" =>
          \A t \in 0..MaxTotal : \A c \in 0..t : \A f \in 0..(t - c) :
             PercentAsSpecified([NewProgress(t) EXCEPT !.completed_files = c,
                                                       !.failed_files = f])

HalfDoneWithAFailure ==
    /\ op = "upload_files"
    /\ progress.total_files = 2
    /\ progress.completed_files = 1
    /\ progress.failed_files = 1
    /\ Percent(progress).num = 50 * Percent(progress).den

\* C8: a wait that has seen no active state when the timeout is reached ends
\* on its next step by the timeout error: the file is marked error with that
\* error, failed_files grows by one, completed_files does not, and the loop
\* is at the next file; a file whose wait timed out is never counted or
\* marked completed by that position of the batch.
TimeoutFailsTheFile ==
    /\ [][(pc = "wait" /\ elapsed >= INDEXING_TIMEOUT) =>
             /\ files'[Cur].status = "error"
             /\ files'[Cur].error_msg = Str(TimeoutError)
             /\ trace'[idx].err = TimeoutError
             /\ progress'.failed_files = progress.failed_files + 1
             /\ progress'.completed_files = progress.completed_files
             /\ idx' = idx + 1
             /\ pc' = "loop"]_vars
    /\ [](\A i \in 1..Len(trace) :
             trace[i].err.type = "TimeoutError" =>
                /\ trace[i].status = "error"
                /\ "get_document" \in trace[i].called
                /\ i < idx
                /\ progress.failed_files >= 1
                /\ progress.completed_files <= Len(trace) - 1)

TimedOutThenNextFileCompleted ==
    /\ UploadReturned
    /\ Len(batch) = 2
    /\ trace[1].err.type = "TimeoutError"
    /\ files[batch[1]].status = "error"
    /\ trace[2].status = "completed"
    /\ progress.failed_files = 1
    /\ progress.completed_files = 1

(***************************************************************************)
(* The progress callback                                                   *)
(***************************************************************************)
\* the files a progress value counts as processed
Processed(p) == p.completed_files + p.failed_files

\* C11 (as amended): upload_files calls the callback once before each file is
\* started and once after the loop: the k-th call (k <= N) is made when k-1
\* files have been processed and current_file still names file k-1 (it is
\* empty for k = 1); the call after the loop sees N processed files and an
\* empty current_file; a call that returned has made N+1 calls, and without
\* a callback none is made.
CallbackBeforeEachFile ==
    op = "upload_files" =>
        /\ ~has_cb => cb_log = <<>>
        /\ has_cb =>
              /\ Len(cb_log) = IF pc = "loop" THEN idx - 1 ELSE idx
              /\ \A k \in 1..Len(cb_log) :
                    /\ cb_log[k].total_files = Len(batch)
                    /\ Processed(cb_log[k]) = k - 1
                    /\ cb_log[k].current_file =
                          IF k = 1 \/ k = Len(batch) + 1
                          THEN 0
                          ELSE FileName(batch[k - 1])
              /\ UploadReturned => Len(cb_log) = Len(batch) + 1

CallbackCalledThreeTimesForTwoFiles ==
    /\ UploadReturned
    /\ has_cb
    /\ Len(batch) = 2
    /\ Len(cb_log) = 3
    /\ Processed(cb_log[1]) = 0
    /\ cb_log[2].current_file = FileName(batch[1])
    /\ Processed(cb_log[2]) = 1
    /\ cb_log[3].current_file = 0
    /\ Processed(cb_log[3]) = 2

\* C11 (as stated): the callback is called after every file has been
\* processed, and once more at the end with an empty current_file: the k-th
\* call (k <= N) sees k processed files and names file k, the last call sees
\* N processed files and an empty current_file.
CallbackAfterEachFile ==
    (op = "upload_files" /\ has_cb) =>
        \A k \in 1..Len(cb_log) :
           /\ k <= Len(batch) =>
                 /\ Processed(cb_log[k]) = k
                 /\ cb_log[k].current_file = FileName(batch[k])
           /\ k = Len(batch) + 1 =>
                 /\ Processed(cb_log[k]) = Len(batch)
                 /\ cb_log[k].current_file = 0

(***************************************************************************)
(* Properties of the vendor calls                                          *)
(***************************************************************************)
\* C12: the error of a vendor call has an effect on the caller (a file marked
\* error, an operation that raises, a validation that returns False) only
\* after MAX_RETRIES attempts of that call.
EveryVendorCallIsRetried ==
    /\ \A i \in 1..Len(trace) :
          trace[i].err.type = "VendorError" =>
              trace[i].err.attempt = MAX_RETRIES - 1
    /\ (pc = "done" /\ ret.kind = "raise" /\ ret.err.type = "VendorError") =>
          calls = MAX_RETRIES
    /\ (op = "validate_api_key" /\ pc = "done" /\ reply.shape = "raises") =>
          calls = MAX_RETRIES

\* C13: when the citation extraction raises on a response, query_store has
\* returned a QueryResult with the text of that response and no citations;
\* the failure is never an attempt that failed (generate_content is not
\* called again for it) and never the error query_store raises.
ExtractionFailureYieldsNoCitations ==
    op = "query_store" =>
        /\ \A i \in 1..Len(fails) : fails[i].rpc # "extract"
        /\ reply.shape = "bad_chunks" =>
              /\ pc = "done"
              /\ ret.kind = "value"
              /\ ret.val.citations = <<>>
              /\ ret.val.text = VendorObject("generate_content", calls - 1)

\* C20: the request query_store makes carries a file-search tool naming
\* store_name and the metadata filter, so that it differs from the request
\* of the same query on any other store.
QueryNamesTheStore ==
    (op = "query_store" /\ request.rpc = "generate_content") =>
        /\ \E i \in 1..Len(request.tools) :
              /\ "file_search" \in DOMAIN request.tools[i]
              /\ request.tools[i].file_search =
                    [store |-> qargs.store_name,
                     metadata_filter |-> qargs.metadata_filter]
        /\ \A s \in QueryStores \ {qargs.store_name} :
              GenerateRequest(s, qargs.query, qargs.metadata_filter) # request

\* C14: once the Cancel button was pressed, the loop of upload_files starts
\* no further file.
CancelStopsTheBatch ==
    [][(cancelled /\ pc = "loop") => pc' # "size"]_vars

(***************************************************************************)
(* Properties of the application                                           *)
(***************************************************************************)
\* the inputs of a handler fail one of the validations the claim lists
InvalidInputs(e) ==
    \/ /\ e.handler = "create_store"
       /\ (~e.manager \/ ~e.name_ok \/ e.nfiles = 0)
    \/ /\ e.handler = "submit_query"
       /\ (~e.manager \/ e.sel = "" \/ ~e.query_ok \/ ~e.listed)

\* C17: when _create_store or _submit_query is run with no manager, an empty
\* store name, no file, no store selected, an empty query or a store that is
\* not listed, that step shows an error dialog, starts no worker, defers no
\* call and calls no manager operation; and nothing does so later for that
\* user action.
ValidationFailsFast ==
    /\ [][(event' # event /\ InvalidInputs(event')) =>
             /\ shown' = shown \cup {[click |-> event'.click, kind |-> "validation"]}
             /\ shown' # shown
             /\ workers' = workers
             /\ after' = after
             /\ mgr_calls' = mgr_calls]_vars
    /\ [](\A d \in shown :
             d.kind = "validation" =>
                /\ workers[d.click] = NoWorker
                /\ \A m \in mgr_calls : m.click # d.click
                /\ \A i \in 1..Len(after) : after[i].click # d.click)

UnlistedStoreRejected ==
    /\ event.handler = "submit_query"
    /\ event.manager
    /\ event.sel = "Gone"
    /\ event.query_ok
    /\ ~event.listed
    /\ [click |-> event.click, kind |-> "validation"] \in shown
    /\ workers[event.click] = NoWorker
    /\ mgr_calls = {}

\* C16: every manager operation that raised to the application (create,
\* list, upload, query) has a log entry of level ERROR and an error dialog,
\* shown or still to be shown by a deferred call.
ErrorsShownAndLogged ==
    \A r \in raised :
        /\ \E l \in log : l.click = r.click /\ l.level = "ERROR"
        /\ \/ [click |-> r.click, kind |-> "error"] \in shown
           \/ \E i \in 1..Len(after) : after[i] = Deferred("showerror", r.click)

\* C18: no widget is read or written by a worker thread.
WidgetsTouchedByGuiThreadOnly ==
    \A t \in touched : t.thread = "gui"

\* a query worker is between its append and the end of its trimming
MidUpdate(c) ==
    workers[c].kind = "query" /\ workers[c].pc \in {"appended", "slice", "store"}

\* C19: whenever no query worker is mid-update, the history has at most
\* MAX_CHAT_HISTORY entries, they are the latest queries that returned a
\* result, in the order they completed, and no response is longer than
\* RESPONSE_LIMIT.
HistoryHoldsMostRecent ==
    (\A c \in ClickIds : ~MidUpdate(c)) =>
        LET n == Len(chat_history)
        IN /\ n <= MAX_CHAT_HISTORY
           /\ n = IF completed < MAX_CHAT_HISTORY THEN completed
                  ELSE MAX_CHAT_HISTORY
           /\ \A i \in 1..n :
                 /\ chat_history[i].stamp = completed - n + i
                 /\ chat_history[i].response <= RESPONSE_LIMIT

(***************************************************************************)
(* Properties of list_stores                                               *)
(***************************************************************************)
ListReturned == op = "list_stores" /\ pc = "done" /\ ret.kind = "value"

\* C15 (as amended): list_stores returns one dictionary per corpus, in the
\* order the vendor yields them, each with the name of its corpus; its
\* display name is the corpus's display_name whenever the corpus has that
\* attribute (an empty one is kept) and the last path segment of the name
\* when the corpus has no such attribute.
ListedInVendorOrder ==
    ListReturned =>
        /\ reply.shape = "corpora"
        /\ Len(ret.val) = Len(reply.corpora)
        /\ \A i \in 1..Len(ret.val) :
              LET c == reply.corpora[i]
              IN /\ ret.val[i].name = c.name
                 /\ c.name[Len(c.name)] = StoreSegments[i]
                 /\ ret.val[i].display_name =
                       IF c.display_name.has
                       THEN c.display_name.val
                       ELSE <<StoreSegments[i]>>

ListedAbsentAndEmptyNames ==
    /\ ListReturned
    /\ Len(ret.val) = 2
    /\ ~reply.corpora[1].display_name.has
    /\ ret.val[1].display_name = <<"alpha">>
    /\ reply.corpora[2].display_name = Attr(<<>>)
    /\ ret.val[2].display_name = <<>>

\* C15 (as stated): the display name is the vendor's when present, and the
\* last path segment of the id for every corpus whose display name is absent
\* or empty.
EmptyNameFallsBack ==
    ListReturned =>
        /\ Len(ret.val) = Len(reply.corpora)
        /\ \A i \in 1..Len(ret.val) :
              LET c == reply.corpora[i]
              IN /\ ret.val[i].name = c.name
                 /\ ret.val[i].display_name =
                       IF c.display_name.has /\ c.display_name.val # <<>>
                       THEN c.display_name.val
                       ELSE <<StoreSegments[i]>>

\* C24: in the retry wrapper the delay waited after the failure of attempt a
\* (counted from 0) is exactly RETRY_DELAY * 2^a; a delay is waited only when
\* another attempt follows: there are as many delays as attempts begun after
\* a failure, none after a success and none after the final failed attempt.
DelayAfterEachFailureButTheLast ==
    /\ \A i \in 1..Len(delays) : delays[i] = RETRY_DELAY * (2 ^ (i - 1))
    /\ Len(delays) = attempt
    /\ attempt <= MAX_RETRIES - 1
    /\ rres.kind = "raise" =>
          Len(fails) = MAX_RETRIES /\ Len(delays) = Len(fails) - 1
    /\ rres.kind # "raise" => Len(delays) = Len(fails)

DelaysOfAnExhaustedRetry ==
    /\ op = "query_store"
    /\ pc = "done"
    /\ rres.kind = "raise"
    /\ delays = <<RETRY_DELAY, 2 * RETRY_DELAY>>
    /\ Len(fails) = MAX_RETRIES

\* the vendor calls of the steps of one file, in the order of the loop body
StepCalls == <<"upload_file", "add_file", "get_document">>

\* the calls of the first n steps
FirstCalls(n) == {StepCalls[k] : k \in 1..n}

\* the sets of calls a file can have had: those of the first n steps, any n
CallPrefixes == {FirstCalls(n) : n \in 0..3}

\* the step an error came from: 0 the size check, then as in StepCalls
StepOf(e) ==
    CASE e \in {SizeError, StatError} -> 0
      [] e.rpc = "upload_file" -> 1
      [] e.rpc = "add_file" -> 2
      [] OTHER -> 3

\* C23: for each file the steps run in the order size check, vendor upload,
\* add-to-store, indexing wait, mark completed: while a step runs, every
\* earlier step's call has been made and no later step's; a file that failed
\* has the calls of the steps up to the failing one and no others; a file is
\* completed only with all three calls made, the last of them a poll that
\* saw an active document.
StepsInOrder ==
    /\ \A i \in 1..Len(trace) :
          LET t == trace[i]
          IN /\ t.called \in CallPrefixes
             /\ t.status = "completed" => (t.called = FirstCalls(3) /\ t.err = NoErr)
             /\ t.status = "error" => t.called = FirstCalls(StepOf(t.err))
             /\ t.status = "uploading" => (i = idx /\ i = Len(trace))
    /\ pc = "size" => trace[idx].called = FirstCalls(0)
    /\ pc = "upload_file" => trace[idx].called \subseteq FirstCalls(1)
    /\ pc = "uploaded" => trace[idx].called = FirstCalls(1)
    /\ pc = "add_file" =>
          (FirstCalls(1) \subseteq trace[idx].called
              /\ trace[idx].called \subseteq FirstCalls(2))
    /\ pc = "wait" => FirstCalls(2) \subseteq trace[idx].called

FailedAtAddThenCompleted ==
    /\ UploadReturned
    /\ Len(trace) = 2
    /\ trace[1].status = "error"
    /\ trace[1].called = {"upload_file", "add_file"}
    /\ trace[2].status = "completed"

\* C26: within one batch, for each file the vendor's upload call is made at
\* most MAX_RETRIES times and the add-to-store call at most MAX_RETRIES
\* times: each of the two retry loops is entered once per file with its count
\* at zero, the upload's from the size check and the add's from a returned
\* upload, and every call of a loop is that loop's own call for the same
\* file (a failed add is followed by an add, never by an upload); a file
\* whose upload failed has no add-to-store call.
UploadAndAddRetriedApart ==
    /\ [](/\ pc \in {"upload_file", "add_file"} =>
                (calls = Len(fails) /\ calls < MAX_RETRIES)
          /\ pc \in {"uploaded", "wait"} =>
                (calls = Len(fails) + 1 /\ calls <= MAX_RETRIES)
          /\ \A i \in 1..Len(trace) :
                trace[i].err.rpc = "upload_file" => "add_file" \notin trace[i].called)
    /\ [][/\ (pc' = "upload_file" /\ pc # "upload_file") =>
                (pc = "size" /\ calls' = 0 /\ trace[idx].called = {})
          /\ (pc' = "add_file" /\ pc # "add_file") =>
                (/\ pc = "uploaded"
                 /\ calls' = 0
                 /\ rres = Returned(VendorObject("upload_file", attempt)))
          /\ (pc \in {"upload_file", "add_file"} /\ calls' # calls) =>
                (/\ calls' = calls + 1
                 /\ request'.rpc = pc
                 /\ pc' \in {pc, "loop", IF pc = "upload_file" THEN "uploaded" ELSE "wait"}
                 /\ idx' = IF pc' = "loop" THEN idx + 1 ELSE idx)
          /\ (pc \notin RetryPcs /\ pc' = pc) => calls' = calls]_vars

AddRetriedWithoutUploadingAgain ==
    /\ pc = "wait"
    /\ request.rpc = "add_file"
    /\ calls = MAX_RETRIES
    /\ Len(fails) = MAX_RETRIES - 1
    /\ trace[idx].called = {"upload_file", "add_file"}

\* the batch names no FileInfo object twice
DistinctRecords == \A i, j \in Positions : i # j => batch[i] # batch[j]

\* the positions of the batch whose record has status s
WithStatus(s) == {i \in Positions : files[batch[i]].status = s}

RECURSIVE SumSizeKb(_)
\* the sum of size_kb over the records at the positions P
SumSizeKb(P) ==
    IF P = {}
    THEN 0
    ELSE LET i == CHOOSE i \in P : TRUE
         IN files[batch[i]].size_kb + SumSizeKb(P \ {i})

\* C27: when upload returns for a batch of N distinct records,
\* completed_files + failed_files = N, every record is completed or error,
\* completed_files is the number of completed records, failed_files the number
\* of error records, and total_tokens is the sum of size_kb over the completed
\* records.
SummaryMatchesRecords ==
    (UploadReturned /\ DistinctRecords) =>
        /\ progress.total_files = Len(batch)
        /\ progress.completed_files + progress.failed_files = Len(batch)
        /\ WithStatus("completed") \cup WithStatus("error") = Positions
        /\ progress.completed_files = Cardinality(WithStatus("completed"))
        /\ progress.failed_files = Cardinality(WithStatus("error"))
        /\ progress.total_tokens = SumSizeKb(WithStatus("completed"))

TwoRecordsOneCompletedOneFailed ==
    /\ UploadReturned
    /\ Len(batch) = 2
    /\ DistinctRecords
    /\ WithStatus("completed") = {2}
    /\ WithStatus("error") = {1}
    /\ progress.total_tokens = SizeKb(MAX_FILE_SIZE)

\* C28: upload returns a final progress summary and propagates no exception,
\* whatever the size checks, vendor calls and indexing waits did, and every
\* file of the batch is completed or error when it returns; the one exception
\* that leaves upload is one the progress callback raised, and then the files
\* started before that invocation are completed or error.
UploadReturnsUnlessCallbackRaises ==
    (op = "upload_files" /\ pc = "done") =>
        /\ ret.kind \in {"value", "raise"}
        /\ ret.kind = "value" =>
              /\ ret = Returned("progress")
              /\ Len(trace) = Len(batch)
              /\ \A i \in Positions : files[batch[i]].status \in {"completed", "error"}
        /\ ret.kind = "raise" =>
              /\ has_cb
              /\ ret.err.type = "CallbackError"
              /\ Len(cb_log) = Len(trace) + 1
              /\ \A i \in 1..Len(trace) : trace[i].status \in {"completed", "error"}
        /\ ~has_cb => ret.kind = "value"

ReturnedThoughEveryStepFailed ==
    /\ UploadReturned
    /\ has_cb
    /\ Len(batch) = 2
    /\ trace[1].err = VendorError("get_document", 0)
    /\ trace[2].err = TimeoutError
    /\ progress.failed_files = 2

\* C28 as stated: upload never propagates an exception, whatever the size
\* checks, vendor calls, indexing waits and progress-callback invocations
\* did, and every file is completed or error before it returns.
UploadNeverPropagates ==
    (op = "upload_files" /\ pc = "done") =>
        /\ ret.kind = "value"
        /\ \A i \in Positions : files[batch[i]].status \in {"completed", "error"}

\* C25: the indexing wait terminates; each of its steps is one poll or the
\* timeout: a poll that sees an active document ends the wait with the file
\* completed, a poll that raises ends it with that error, a poll that sees
\* any other state is followed by one sleep of POLL_SLEEP seconds (the clock
\* moves on by the call's own time and the sleep) and the next look at the
\* clock, and once the elapsed time has reached the timeout the wait ends
\* with the timeout error and without another poll.
WaitForIndexingTerminates ==
    /\ (pc = "wait") ~> (pc # "wait")
    /\ [][pc = "wait" =>
            \/ /\ elapsed < INDEXING_TIMEOUT
               /\ pc' = "wait"
               /\ \E lat \in Latencies :
                     elapsed' = IF elapsed + lat + POLL_SLEEP < INDEXING_TIMEOUT
                                THEN elapsed + lat + POLL_SLEEP
                                ELSE INDEXING_TIMEOUT
               /\ elapsed' > elapsed
               /\ "get_document" \in trace'[idx].called
               /\ trace'[idx].status = "uploading"
            \/ /\ elapsed < INDEXING_TIMEOUT
               /\ pc' = "loop"
               /\ "get_document" \in trace'[idx].called
               /\ \/ trace'[idx].status = "completed"
                  \/ trace'[idx].err = VendorError("get_document", 0)
            \/ /\ elapsed >= INDEXING_TIMEOUT
               /\ pc' = "loop"
               /\ trace'[idx].called = trace[idx].called
               /\ trace'[idx].err = TimeoutError]_vars

ActiveSeenAtALaterPoll ==
    /\ pc = "loop"
    /\ idx = 2
    /\ Len(trace) = 1
    /\ trace[1].status = "completed"
    /\ elapsed > 0
    /\ elapsed < INDEXING_TIMEOUT

\* query_store was called for user action c and has returned or raised
QueryAsked(c) == [click |-> c, op |-> "query_store"] \in mgr_calls

\* a call deferred for user action c has not run yet
Pending(c) == \E i \in 1..Len(after) : after[i].click = c

\* the query of user action c is over: its worker has ended and the GUI
\* thread has run what the worker deferred
QueryOver(c) == QueryAsked(c) /\ workers[c] = NoWorker /\ ~Pending(c)

\* a query is still being worked on
QueryInProgress == \E c \in ClickIds : workers[c].kind = "query" \/ Pending(c)

\* C30: every query that passed validation ends in exactly one of two
\* outcomes: its result displayed and one entry appended to the chat history,
\* or an error dialog shown and nothing appended; and once no query is in
\* progress the status bar no longer shows "Querying...".
QueryEndsInOneOutcome ==
    \A c \in ClickIds :
        QueryOver(c) =>
            /\ \/ /\ outcome[c].displayed
                  /\ outcome[c].appended = 1
                  /\ [click |-> c, kind |-> "error"] \notin shown
               \/ /\ [click |-> c, kind |-> "error"] \in shown
                  /\ ~outcome[c].displayed
                  /\ outcome[c].appended = 0
            /\ ~QueryInProgress => status_bar # "Querying..."

\* create_store returned a store id for user action c
CreateReturned(c) ==
    /\ [click |-> c, op |-> "create_store"] \in mgr_calls
    /\ [click |-> c, op |-> "create_store"] \notin raised

\* create_store raised for user action c, its retries exhausted
CreateFailed(c) == [click |-> c, op |-> "create_store"] \in raised

\* the upload of user action c has started: its worker runs, upload_files was
\* called, or the selected file is no longer pending
UploadStarted(c) ==
    \/ workers[c].kind = "upload"
    \/ [click |-> c, op |-> "upload_files"] \in mgr_calls
    \/ locals[c].store_name # 0
    \/ locals[c].status \notin {"none", "pending"}

\* C22: in a create-and-upload action the upload starts only after create
\* returned a store id, and upload_files is called with that id; when create
\* failed, no upload is deferred or started for the action (so none of the
\* vendor calls of an upload is made for it) and the selected file stays
\* pending.
UploadOnlyAfterCreateReturned ==
    \A c \in ClickIds :
        /\ (UploadStarted(c) \/ Deferred("show_upload_progress", c) \in Range(after)) =>
              /\ CreateReturned(c)
              /\ locals[c].store_id # 0
        /\ UploadStarted(c) => locals[c].store_name = locals[c].store_id
        /\ CreateFailed(c) =>
              /\ ~UploadStarted(c)
              /\ Deferred("show_upload_progress", c) \notin Range(after)
              /\ locals[c].status = "pending"

OneCreateFailedOneUploaded ==
    /\ CreateFailed(1)
    /\ locals[1].status = "pending"
    /\ workers[1] = NoWorker
    /\ CreateReturned(2)
    /\ locals[2].status = "processed"
    /\ locals[2].store_name = locals[2].store_id
    /\ locals[2].store_id # locals[1].store_id

\* C29: whenever the window is closed while a worker `upload` is running, the
\* application has asked for confirmation first (and the answer was yes); it
\* closes without asking only when no upload is in progress.
CloseAsksDuringUpload ==
    closed.destroyed => (closed.uploading <=> closed.asked)

\* the steps of the worker of user action c inside its manager operation
CallStep(c) ==
    \/ CreateAndUploadReturns(c) \/ CreateAndUploadRaises(c)
    \/ UploadCallback(c) \/ UploadWorkerReturns(c) \/ UploadWorkerRaises(c)
    \/ DoQueryReturns(c) \/ DoQueryRaises(c)

\* C21: no operation acquires the manager's mutex and nothing serialises the
\* workers: a worker inside a manager operation can always take its next
\* step, whatever the other workers are doing; and the progress of an upload
\* is its own: a step that moves one upload on leaves every other worker and
\* every other action's file as they were.
NothingSerialisesWorkers ==
    /\ [](lock = 0)
    /\ [](\A c \in ClickIds : workers[c].pc = "call" => ENABLED CallStep(c))
    /\ [][\A c \in ClickIds :
             (workers'[c].cbs # workers[c].cbs \/ locals'[c].status # locals[c].status) =>
                 \A d \in ClickIds \ {c} :
                     workers'[d] = workers[d] /\ locals'[d] = locals[d]]_vars

TwoUploadsInsideTheManager ==
    /\ workers[1].kind = "upload"
    /\ workers[1].pc = "call"
    /\ workers[2].kind = "upload"
    /\ workers[2].pc = "call"
    /\ workers[1].cbs = 0
    /\ workers[2].cbs = 1
    /\ lock = 0

====
